---- MODULE Spec2Model ----
(***************************************************************************)
(* The SWC fantasy-football API (src/main.py): a read-only FastAPI service *)
(* whose endpoints each open a store session (get_db), call the Query      *)
(* Layer of crud.py, shape the response and close the session.             *)
(*                                                                         *)
(* The endpoint layer is translated from src/main.py.  The Query Layer     *)
(* (crud.py), the session factory (database.py) and the store itself are   *)
(* not part of src/; they are modelled from the specification, sections   *)
(* 4.1 and 5.                                                              *)
(***************************************************************************)
EXTENDS Integers, Sequences, FiniteSets, TLC

VARIABLES
    store,   \* the external store: one set of rows per collection
    writes,  \* how many times another process has changed the store
    hist,    \* <<league, team, player>> cardinalities of every store state so far
    req,     \* per worker: the request it is serving and how far it has got
    prev     \* per worker: the page a paging client got just before this request

vars == <<store, writes, hist, req, prev>>

---------------------------------------------------------------------------
(* Bounds of the model. *)

MaxId == 2          \* primary keys are 1..MaxId
MaxDate == 2        \* last-changed dates are the days 1..MaxDate
MaxPage == 2        \* skip and limit given by a client are at most MaxPage
MaxWrites == 2      \* store changes by other processes
NumWorkers == 2     \* requests served concurrently

Ids == 1..MaxId
Dates == 1..MaxDate
Workers == 1..NumWorkers
FirstNames == {"Ann", "Bob"}
LastNames == {"Smith", "Jones"}
LeagueNames == {"Pigskin", "Gridiron"}
TeamNames == {"Wolves", "Bears"}

Min(a, b) == IF a < b THEN a ELSE b
Max(a, b) == IF a > b THEN a ELSE b

---------------------------------------------------------------------------
(* The store's collections (spec section 3; the schema is an external      *)
(* contract: rows keyed by integer identity, each with a last-changed      *)
(* date).                                                                  *)

\* The attribute values rows are drawn from: for each collection, samples in
\* which every pair of filterable attributes takes every pair of values.
Yesterday == MaxDate - 1
Today == MaxDate
PlayerSamples ==
    {<<"Ann", "Smith", Yesterday>>, <<"Ann", "Jones", Today>>,
     <<"Bob", "Smith", Today>>, <<"Bob", "Jones", Yesterday>>}
TeamSamples ==
    {<<"Wolves", 1, Yesterday>>, <<"Wolves", 2, Today>>,
     <<"Bears", 1, Today>>, <<"Bears", 2, Yesterday>>}

PlayerRows ==
    {[id |-> i, first_name |-> p[1], last_name |-> p[2], last_changed_date |-> p[3]] :
        i \in Ids, p \in PlayerSamples}
PerformanceRows == [id : Ids, player_id : {1}, last_changed_date : {Yesterday, Today}]
LeagueRows == [id : Ids, league_name : LeagueNames, last_changed_date : {Yesterday, Today}]
TeamRows ==
    {[id |-> i, team_name |-> p[1], league_id |-> p[2], last_changed_date |-> p[3]] :
        i \in Ids, p \in TeamSamples}

Collections == {"players", "performances", "leagues", "teams"}

RowsOf(c) ==
    CASE c = "players" -> PlayerRows
      [] c = "performances" -> PerformanceRows
      [] c = "leagues" -> LeagueRows
      [] c = "teams" -> TeamRows

\* identity is a primary key: no two rows of a collection share it
KeyedById(rows) == \A x \in rows : \A y \in rows : x.id = y.id => x = y

EmptyStore == [c \in Collections |-> {}]

Cardinalities(s) ==
    <<Cardinality(s["leagues"]), Cardinality(s["teams"]), Cardinality(s["players"])>>

---------------------------------------------------------------------------
(* Requests as they arrive: an endpoint and its raw parameters.  A raw     *)
(* integer or date parameter is absent, an integer, or text that does not  *)
(* parse; an optional string parameter is {} (absent) or {s}.              *)

Absent == [t |-> "none", v |-> 0]
Malformed == [t |-> "bad", v |-> 0]
IntVal(n) == [t |-> "int", v |-> n]
RawInts(S) == {Absent} \cup {IntVal(n) : n \in S}
OptStr(S) == {{}} \cup {{x} : x \in S}

ListEndpoints == {"players", "performances", "leagues", "teams"}
LookupEndpoints == {"player", "league"}
StoreEndpoints == ListEndpoints \cup LookupEndpoints \cup {"counts"}
Endpoints == StoreEndpoints \cup {"root"}

\* a request with no parameter given
Bare(ep) ==
    [ep |-> ep, skip |-> Absent, limit |-> Absent,
     minimum_last_changed_date |-> Absent,
     first_name |-> {}, last_name |-> {}, league_name |-> {},
     team_name |-> {}, league_id |-> Absent, id |-> Absent]

\* the query strings of a list endpoint over the given parameter values
ListRequests(ep, skips, limits, dates, leagueIds) ==
    {[Bare(ep) EXCEPT !.skip = sk, !.limit = li,
                      !.minimum_last_changed_date = d,
                      !.first_name = fn, !.last_name = ln,
                      !.league_name = lg, !.team_name = tn, !.league_id = lid] :
        sk \in skips, li \in limits, d \in dates,
        fn \in IF ep = "players" THEN OptStr(FirstNames) ELSE {{}},
        ln \in IF ep = "players" THEN OptStr(LastNames) ELSE {{}},
        lg \in IF ep = "leagues" THEN OptStr(LeagueNames) ELSE {{}},
        tn \in IF ep = "teams" THEN OptStr(TeamNames) ELSE {{}},
        lid \in IF ep = "teams" THEN leagueIds ELSE {Absent}}

LookupRequests(ep, ids) == {[Bare(ep) EXCEPT !.id = i] : i \in ids}

---------------------------------------------------------------------------
(* Request parsing (FastAPI, from the handlers' signatures in main.py): a  *)
(* parameter declared int or date must parse; nothing else is checked.     *)

\* `name: int = default`
IntOr(raw, default) == IF raw.t = "int" THEN raw.v ELSE default
\* `name: date = None`, `name: int = None`
Opt(raw) == IF raw.t = "int" THEN {raw.v} ELSE {}

WellFormed(q) ==
    /\ q.skip # Malformed
    /\ q.limit # Malformed
    /\ q.minimum_last_changed_date # Malformed
    /\ q.league_id # Malformed
    /\ q.ep \in LookupEndpoints => q.id.t = "int"

---------------------------------------------------------------------------
(* The call a handler makes to the Query Layer. *)

BaseCall(fn) ==
    [fn |-> fn, skip |-> 0, limit |-> 0, min_last_changed_date |-> {},
     first_name |-> {}, last_name |-> {}, league_name |-> {},
     team_name |-> {}, league_id |-> {}, key |-> 0]

\* read_players with skip and limit passed in each other's place
read_players_page_swapped(q) ==
    [BaseCall("get_players") EXCEPT
        !.skip = IntOr(q.limit, 100),
        !.limit = IntOr(q.skip, 0),
        !.min_last_changed_date = Opt(q.minimum_last_changed_date),
        !.first_name = q.first_name,
        !.last_name = q.last_name]

read_players(q) ==
    [BaseCall("get_players") EXCEPT
        !.skip = IntOr(q.skip, 0),
        !.limit = IntOr(q.limit, 100),
        !.min_last_changed_date = Opt(q.minimum_last_changed_date),
        !.first_name = q.first_name,
        !.last_name = q.last_name]

read_player(q) == [BaseCall("get_player") EXCEPT !.key = q.id.v]

\* read_performances without min_last_changed_date passed on
read_performances_no_date(q) ==
    [BaseCall("get_performances") EXCEPT
        !.skip = IntOr(q.skip, 0),
        !.limit = IntOr(q.limit, 100)]

read_performances(q) ==
    [BaseCall("get_performances") EXCEPT
        !.skip = IntOr(q.skip, 0),
        !.limit = IntOr(q.limit, 100),
        !.min_last_changed_date = Opt(q.minimum_last_changed_date)]

read_league(q) == [BaseCall("get_league") EXCEPT !.key = q.id.v]

\* read_leagues without skip passed on
read_leagues_no_skip(q) ==
    [BaseCall("get_leagues") EXCEPT
        !.limit = IntOr(q.limit, 100),
        !.min_last_changed_date = Opt(q.minimum_last_changed_date),
        !.league_name = q.league_name]

read_leagues(q) ==
    [BaseCall("get_leagues") EXCEPT
        !.skip = IntOr(q.skip, 0),
        !.limit = IntOr(q.limit, 100),
        !.min_last_changed_date = Opt(q.minimum_last_changed_date),
        !.league_name = q.league_name]

\* read_teams without league_id passed on
read_teams_no_league(q) ==
    [BaseCall("get_teams") EXCEPT
        !.skip = IntOr(q.skip, 0),
        !.limit = IntOr(q.limit, 100),
        !.min_last_changed_date = Opt(q.minimum_last_changed_date),
        !.team_name = q.team_name]

read_teams(q) ==
    [BaseCall("get_teams") EXCEPT
        !.skip = IntOr(q.skip, 0),
        !.limit = IntOr(q.limit, 100),
        !.min_last_changed_date = Opt(q.minimum_last_changed_date),
        !.team_name = q.team_name,
        !.league_id = Opt(q.league_id)]

\* get_count reading the team count twice
get_count_team_twice ==
    <<BaseCall("get_league_count"), BaseCall("get_team_count"),
      BaseCall("get_team_count")>>

\* get_count reading the team count first
get_count_team_first ==
    <<BaseCall("get_team_count"), BaseCall("get_league_count"),
      BaseCall("get_player_count")>>

\* get_count's three calls, in the order Python evaluates the keyword arguments
get_count ==
    <<BaseCall("get_league_count"), BaseCall("get_team_count"),
      BaseCall("get_player_count")>>

\* Counts with the league and team counts in each other's field
Counts_swapped(vals) ==
    [league_count |-> vals[2], team_count |-> vals[1], player_count |-> vals[3]]

\* schemas.Counts(league_count = ..., team_count = ..., player_count = ...)
Counts(vals) ==
    [league_count |-> vals[1], team_count |-> vals[2], player_count |-> vals[3]]

HandlerCall(q) ==
    CASE q.ep = "players" -> read_players(q)
      [] q.ep = "player" -> read_player(q)
      [] q.ep = "performances" -> read_performances(q)
      [] q.ep = "league" -> read_league(q)
      [] q.ep = "leagues" -> read_leagues(q)
      [] q.ep = "teams" -> read_teams(q)

---------------------------------------------------------------------------
(* The Query Layer (crud.py, modelled from spec section 4.1): filters      *)
(* combined with AND, an absent filter imposing nothing, the date an       *)
(* inclusive lower bound, rows ordered by identity before skip and limit.  *)

CollectionOf(fn) ==
    CASE fn \in {"get_players", "get_player", "get_player_count"} -> "players"
      [] fn = "get_performances" -> "performances"
      [] fn \in {"get_leagues", "get_league", "get_league_count"} -> "leagues"
      [] fn \in {"get_teams", "get_team_count"} -> "teams"

Passes(call, x) ==
    /\ \A d \in call.min_last_changed_date : x.last_changed_date >= d
    /\ call.fn = "get_players" =>
          /\ \A n \in call.first_name : x.first_name = n
          /\ \A n \in call.last_name : x.last_name = n
    /\ call.fn = "get_leagues" =>
          \A n \in call.league_name : x.league_name = n
    /\ call.fn = "get_teams" =>
          /\ \A n \in call.team_name : x.team_name = n
          /\ \A l \in call.league_id : x.league_id = l

\* the rows of a set in ascending identity order
OrderById(rows) ==
    [i \in 1..Cardinality(rows) |->
        CHOOSE x \in rows : Cardinality({y \in rows : y.id < x.id}) = i - 1]

\* OFFSET skip LIMIT limit
Page(seq, skip, limit) == SubSeq(seq, skip + 1, Min(Len(seq), skip + limit))

Ok(rows, n) == [ok |-> TRUE, rows |-> rows, n |-> n]
Failed == [ok |-> FALSE, rows |-> <<>>, n |-> 0]

\* What a call can come back with from a store that answers.  The Query
\* Layer's contract covers skip >= 0 and limit >= 0 only; outside it the
\* result depends on the store behind it: the query is refused, or (SQLite)
\* a negative OFFSET counts as 0 and a negative LIMIT as no limit.
crud(s, call) ==
    LET rows == s[CollectionOf(call.fn)]
        hits == OrderById({x \in rows : Passes(call, x)})
    IN  CASE call.fn \in {"get_players", "get_performances", "get_leagues", "get_teams"} ->
                IF call.skip >= 0 /\ call.limit >= 0
                THEN {Ok(Page(hits, call.skip, call.limit), 0)}
                ELSE {Failed,
                      Ok(Page(hits, Max(call.skip, 0),
                              IF call.limit < 0 THEN Len(hits) ELSE call.limit), 0)}
          [] call.fn \in {"get_player", "get_league"} ->
                {Ok(OrderById({x \in rows : x.id = call.key}), 0)}
          [] OTHER -> {Ok(<<>>, Cardinality(rows))}

---------------------------------------------------------------------------
(* Responses. *)

NoCounts == [league_count |-> 0, team_count |-> 0, player_count |-> 0]
Response(status, rows, detail) ==
    [status |-> status, rows |-> rows, detail |-> detail, counts |-> NoCounts]
NoResponse == Response(0, <<>>, "")

\* a list handler returns what the Query Layer gave it
ListResponse(rows) == Response(200, rows, "")

\* read_player / read_league: None from the Query Layer raises the 404
NotFoundDetail(ep) == IF ep = "player" THEN "Player not found" ELSE "League not found"
\* the lookup handlers without their `is None` check
LookupResponse_unchecked(ep, rows) == Response(200, rows, "")

LookupResponse(ep, rows) ==
    IF rows = <<>> THEN Response(404, <<>>, NotFoundDetail(ep))
    ELSE Response(200, rows, "")

root == Response(200, <<>>, "API health check successful")

---------------------------------------------------------------------------
(* A worker serving a request.                                             *)
(*   pc       idle, handler (session open, handler body not yet run),      *)
(*            count2 / count3 (get_count between its reads), exit (the     *)
(*            handler has returned or raised; get_db's finally is next),   *)
(*            done (response sent)                                         *)
(*   session  none / open / closed: the db of this request's get_db        *)
(*   closes   how many times db.close() has run for this request           *)
(*   calls    the Query Layer calls made so far                            *)
(*   reads    how many of them have returned                               *)
(*   vals     get_count: the counts read so far                            *)
(*   readAt   get_count: the index in hist of the store state each was     *)
(*            read from                                                    *)
(*   ver      the value of writes when the request arrived                 *)

Idle ==
    [pc |-> "idle", q |-> Bare("root"), session |-> "none", closes |-> 0,
     calls |-> <<>>, reads |-> 0, vals |-> <<>>, readAt |-> <<>>, ver |-> 0,
     resp |-> NoResponse]

NoPrev == [q |-> Bare("root"), resp |-> NoResponse, ver |-> 0]

\* get_db up to its yield: db = SessionLocal()
get_db_enter(w) == [w EXCEPT !.session = "open"]

\* get_db without try/finally: close() runs only after a normal return
get_db_exit_on_return(w) ==
    IF w.resp.status = 200 THEN [w EXCEPT !.session = "closed", !.closes = @ + 1] ELSE w

\* get_db's finally: db.close()
get_db_exit(w) == [w EXCEPT !.session = "closed", !.closes = @ + 1]

\* A request is routed.  root takes no session and answers at once; for the
\* other endpoints FastAPI first resolves Depends(get_db) and then validates
\* the parameters, answering 422 without entering the handler when one does
\* not parse.
Arrive(r, q, p) ==
    /\ req' = [req EXCEPT ![r] =
            IF q.ep = "root"
            THEN [Idle EXCEPT !.pc = "done", !.q = q, !.ver = writes, !.resp = root]
            ELSE IF WellFormed(q)
            THEN [get_db_enter(Idle) EXCEPT !.pc = "handler", !.q = q, !.ver = writes]
            ELSE [get_db_enter(Idle) EXCEPT !.pc = "exit", !.q = q, !.ver = writes,
                                             !.resp = Response(422, <<>>, "validation error")]]
    /\ prev' = [prev EXCEPT ![r] = p]
    /\ UNCHANGED <<store, writes, hist>>

Receive(r, requests) ==
    /\ req[r].pc = "idle"
    /\ \E q \in requests : Arrive(r, q, NoPrev)

\* A client that got the page skip=0, limit=N asks for the one after it.
NextPage(r) ==
    LET w == req[r] IN
    /\ w.pc = "done"
    /\ w.q.ep \in ListEndpoints
    /\ w.resp.status = 200
    /\ IntOr(w.q.skip, 0) = 0
    /\ w.q.limit.t = "int"
    /\ w.q.limit.v >= 0
    /\ Arrive(r, [w.q EXCEPT !.skip = IntVal(w.q.limit.v)],
              [q |-> w.q, resp |-> w.resp, ver |-> w.ver])

\* The body of a list or lookup handler: its one Query Layer call, then the
\* return or the raise.
Handle(r) ==
    LET w == req[r]
        ep == w.q.ep
        call == HandlerCall(w.q)
    IN  /\ w.pc = "handler"
        /\ \E out \in crud(store, call) :
              req' = [req EXCEPT ![r] =
                  [w EXCEPT !.pc = "exit",
                            !.calls = Append(@, call),
                            !.reads = IF out.ok THEN @ + 1 ELSE @,
                            !.resp = IF ~out.ok THEN Response(500, <<>>, "Internal Server Error")
                                     ELSE IF ep \in ListEndpoints THEN ListResponse(out.rows)
                                     ELSE LookupResponse(ep, out.rows)]]
        /\ UNCHANGED <<store, writes, hist, prev>>

ReadPlayers(r) == req[r].q.ep = "players" /\ Handle(r)
ReadPlayer(r) == req[r].q.ep = "player" /\ Handle(r)
ReadPerformances(r) == req[r].q.ep = "performances" /\ Handle(r)
ReadLeague(r) == req[r].q.ep = "league" /\ Handle(r)
ReadLeagues(r) == req[r].q.ep = "leagues" /\ Handle(r)
ReadTeams(r) == req[r].q.ep = "teams" /\ Handle(r)

\* get_count: one of its three reads; after the third, the Counts object.
GetCount(r) ==
    LET w == req[r]
        i == Len(w.vals) + 1
    IN  /\ w.q.ep = "counts"
        /\ w.pc \in {"handler", "count2", "count3"}
        /\ w.pc = <<"handler", "count2", "count3">>[i]
        /\ \E out \in crud(store, get_count[i]) :
              LET vals == Append(w.vals, out.n) IN
              req' = [req EXCEPT ![r] =
                  [w EXCEPT !.pc = <<"count2", "count3", "exit">>[i],
                            !.calls = Append(@, get_count[i]),
                            !.reads = @ + 1,
                            !.vals = vals,
                            !.readAt = Append(@, Len(hist)),
                            !.resp = IF i = 3
                                     THEN [Response(200, <<>>, "") EXCEPT !.counts = Counts(vals)]
                                     ELSE @]]
        /\ UNCHANGED <<store, writes, hist, prev>>

\* The store is unavailable or the query fails: the call raises, and the
\* exception leaves the handler.
StoreFailure(r) ==
    LET w == req[r]
        call == IF w.q.ep = "counts" THEN get_count[Len(w.vals) + 1] ELSE HandlerCall(w.q)
    IN  /\ w.pc \in {"handler", "count2", "count3"}
        /\ req' = [req EXCEPT ![r] =
              [w EXCEPT !.pc = "exit",
                        !.calls = Append(@, call),
                        !.resp = Response(500, <<>>, "Internal Server Error")]]
        /\ UNCHANGED <<store, writes, hist, prev>>

\* The handler is left, by return or by exception: get_db resumes after its
\* yield and runs the finally; the response goes out.
Release(r) ==
    /\ req[r].pc = "exit"
    /\ req' = [req EXCEPT ![r] = [get_db_exit(@) EXCEPT !.pc = "done"]]
    /\ UNCHANGED <<store, writes, hist, prev>>

\* The response has gone out; the worker is free for the next request.
Finish(r) ==
    /\ req[r].pc = "done"
    /\ req' = [req EXCEPT ![r] = Idle]
    /\ prev' = [prev EXCEPT ![r] = NoPrev]
    /\ UNCHANGED <<store, writes, hist>>

\* Another process inserts or deletes a row of the store.
StoreWrite(inserts) ==
    /\ writes < MaxWrites
    /\ \E c \in Collections :
          \/ \E x \in inserts[c] :
                /\ \A y \in store[c] : y.id # x.id
                /\ store' = [store EXCEPT ![c] = @ \cup {x}]
          \/ \E x \in store[c] : store' = [store EXCEPT ![c] = @ \ {x}]
    /\ writes' = writes + 1
    /\ hist' = Append(hist, Cardinalities(store'))
    /\ UNCHANGED <<req, prev>>

InitWith(stores) ==
    /\ store \in stores
    /\ writes = 0
    /\ hist = <<Cardinalities(store)>>
    /\ req = [r \in Workers |-> Idle]
    /\ prev = [r \in Workers |-> NoPrev]

---------------------------------------------------------------------------
(* Stores and request families the specifications start from and draw on.  *)

RowsWithId(c, i) == {x \in RowsOf(c) : x.id = i}

\* every table of collection c with identities in 1..n
RECURSIVE TablesUpTo(_, _)
TablesUpTo(c, n) ==
    IF n = 0 THEN {{}}
    ELSE LET T == TablesUpTo(c, n - 1)
         IN  T \cup {t \cup {x} : t \in T, x \in RowsWithId(c, n)}

\* stores with one collection populated, in every way
SmallStores ==
    UNION {{[EmptyStore EXCEPT ![c] = t] : t \in TablesUpTo(c, MaxId)} : c \in Collections}

\* a store holding one row more than the default limit of the list endpoints
BulkStore ==
    [EmptyStore EXCEPT !["performances"] =
        {[id |-> i, player_id |-> 1, last_changed_date |-> Today] : i \in 1..(100 + 1)}]

QueryStores == SmallStores \cup {BulkStore}

CollectionOfEndpoint(ep) ==
    CASE ep \in {"players", "player"} -> "players"
      [] ep = "performances" -> "performances"
      [] ep \in {"leagues", "league"} -> "leagues"
      [] ep = "teams" -> "teams"

PageInts == RawInts(-1..MaxPage)

\* requests to the endpoints of the populated collection (to all of them when
\* the store is empty), over every combination of parameters, and one request
\* per parameter that does not parse
QueryRequests ==
    LET eps == {ep \in ListEndpoints \cup LookupEndpoints :
                    store[CollectionOfEndpoint(ep)] # {} \/ store = EmptyStore}
    IN  UNION {IF ep \in ListEndpoints
               THEN ListRequests(ep, PageInts, PageInts, RawInts(Dates), RawInts(1..2))
                    \cup {[Bare(ep) EXCEPT !.skip = Malformed],
                          [Bare(ep) EXCEPT !.minimum_last_changed_date = Malformed]}
               ELSE LookupRequests(ep, {IntVal(i) : i \in -1..MaxId} \cup {Malformed})
               : ep \in eps}

InitQuery == InitWith(QueryStores)

NextQuery ==
    \/ Receive(1, QueryRequests)
    \/ ReadPlayers(1)
    \/ ReadPlayer(1)
    \/ ReadPerformances(1)
    \/ ReadLeague(1)
    \/ ReadLeagues(1)
    \/ ReadTeams(1)
    \/ Release(1)
    \/ Finish(1)

SpecQuery == InitQuery /\ [][NextQuery]_vars

---------------------------------------------------------------------------
(* Spec: the request lifecycle.  Every worker serves requests to every     *)
(* endpoint against a small store that may fail any call.                  *)

SeedStore ==
    [c \in Collections |->
        CASE c = "players" ->
                {[id |-> 1, first_name |-> "Ann", last_name |-> "Smith",
                  last_changed_date |-> Yesterday]}
          [] c = "performances" ->
                {[id |-> 1, player_id |-> 1, last_changed_date |-> Today]}
          [] c = "leagues" ->
                {[id |-> 1, league_name |-> "Pigskin", last_changed_date |-> Yesterday]}
          [] c = "teams" ->
                {[id |-> 1, team_name |-> "Wolves", league_id |-> 1,
                  last_changed_date |-> Yesterday]}]

\* one request of each shape: every list endpoint, the counts, the root, a
\* player lookup that misses (no row has id 0) and one that hits, a league
\* lookup that hits and one whose path id does not parse
BasicRequests ==
    {Bare(ep) : ep \in ListEndpoints \cup {"counts", "root"}}
    \cup LookupRequests("player", {IntVal(0), IntVal(1)})
    \cup LookupRequests("league", {IntVal(1), Malformed})

\* what a worker does once a request has arrived
Serve(r) ==
    \/ ReadPlayers(r)
    \/ ReadPlayer(r)
    \/ ReadPerformances(r)
    \/ ReadLeague(r)
    \/ ReadLeagues(r)
    \/ ReadTeams(r)
    \/ GetCount(r)
    \/ StoreFailure(r)
    \/ Release(r)

Init == InitWith({SeedStore})

Next ==
    \E r \in Workers :
        \/ Receive(r, BasicRequests)
        \/ Serve(r)
        \/ Finish(r)

Spec == Init /\ [][Next]_vars

\* A worker thread runs its handler to the end: every store call returns or
\* raises, and the framework then resumes get_db.
FairSpec == Spec /\ \A r \in Workers : WF_vars(Serve(r))

---------------------------------------------------------------------------
(* SpecCounts: one worker serving /v0/counts/ while another process        *)
(* changes the store.                                                      *)

NextCounts ==
    \/ Receive(1, {Bare("counts")})
    \/ GetCount(1)
    \/ Release(1)
    \/ Finish(1)
    \/ StoreWrite([c \in Collections |-> RowsOf(c)])

SpecCounts == Init /\ [][NextCounts]_vars

---------------------------------------------------------------------------
(* SpecPages: a client reads a list endpoint page by page: skip=0,limit=N  *)
(* and then skip=N,limit=N, against a store nobody changes.                *)

FirstPages ==
    UNION {ListRequests(ep, {Absent, IntVal(0)}, {IntVal(n) : n \in 0..MaxPage},
                        RawInts(Dates), RawInts(1..2)) :
           ep \in {e \in ListEndpoints : store[CollectionOfEndpoint(e)] # {}}}

NextPages ==
    \/ Receive(1, FirstPages)
    \/ NextPage(1)
    \/ ReadPlayers(1)
    \/ ReadPerformances(1)
    \/ ReadLeagues(1)
    \/ ReadTeams(1)
    \/ Release(1)
    \/ Finish(1)

SpecPages == InitQuery /\ [][NextPages]_vars

---------------------------------------------------------------------------
(* What the claims are stated in: a request's parameters as the client     *)
(* gave them, and the rows of the store they select.                       *)

Answered(w) == w.pc \in {"exit", "done"}

\* row x satisfies every filter given in query q, other than the date
SatisfiesNames(q, x) ==
    /\ q.ep = "players" =>
          /\ q.first_name # {} => {x.first_name} = q.first_name
          /\ q.last_name # {} => {x.last_name} = q.last_name
    /\ q.ep = "leagues" => (q.league_name # {} => {x.league_name} = q.league_name)
    /\ q.ep = "teams" =>
          /\ q.team_name # {} => {x.team_name} = q.team_name
          /\ q.league_id.t = "int" => x.league_id = q.league_id.v

Satisfies(q, x) ==
    /\ SatisfiesNames(q, x)
    /\ q.minimum_last_changed_date.t = "int" =>
          x.last_changed_date >= q.minimum_last_changed_date.v

Matching(q) == {x \in store[CollectionOfEndpoint(q.ep)] : Satisfies(q, x)}

\* how many rows of S come before x in identity order
Rank(S, x) == Cardinality({y \in S : y.id < x.id})

GivenSkip(q) == IF q.skip.t = "none" THEN 0 ELSE q.skip.v
GivenLimit(q) == IF q.limit.t = "none" THEN 100 ELSE q.limit.v

\* a list request with valid skip and limit that the handler has answered
ListAnswered(w) ==
    /\ Answered(w)
    /\ w.q.ep \in ListEndpoints
    /\ WellFormed(w.q)
    /\ GivenSkip(w.q) >= 0
    /\ GivenLimit(w.q) >= 0

InRows(x, rows) == \E i \in 1..Len(rows) : rows[i] = x

---------------------------------------------------------------------------
\* what get_db guarantees of one worker's session
SessionScoped(w) ==
    /\ w.closes <= 1
    /\ w.pc \in {"handler", "count2", "count3", "exit"} =>
          w.session = "open" /\ w.closes = 0
    /\ w.pc = "done" /\ w.q.ep \in StoreEndpoints =>
          w.session = "closed" /\ w.closes = 1
    /\ w.pc = "idle" \/ w.q.ep = "root" => w.session = "none"

(* C1: every request to a store-backed endpoint holds a session of its own *)
(* from entry, and that session is closed exactly once on every exit path  *)
(* (return, the 404 raise, a failed store call, a rejected parameter): a   *)
(* worker inside a handler has its session open and not yet closed, a      *)
(* finished request has it closed, closed once, an open session stays open *)
(* until it is closed, and no session stays open forever.                  *)
C1_SessionClosedOnce ==
    /\ [](\A r \in Workers : SessionScoped(req[r]))
    /\ [][\A r \in Workers :
            req[r].session = "open" => req'[r].session \in {"open", "closed"}]_vars
    /\ \A r \in Workers : []<>(req[r].session # "open")

\* one request has left through the 404 raise with its session closed, while
\* another, failed by the store, still holds its own open session
C1_Witness ==
    \E r1 \in Workers : \E r2 \in Workers :
        /\ req[r1].pc = "done" /\ req[r1].resp.status = 404
        /\ req[r1].session = "closed" /\ req[r1].closes = 1
        /\ req[r2].pc = "exit" /\ req[r2].resp.status = 500
        /\ req[r2].session = "open"

---------------------------------------------------------------------------
(* C2: player by id and league by id answer 404 with "Player not found" /  *)
(* "League not found" when no row of the store has the requested id, and   *)
(* 200 with the row whose id is the requested one when there is one.       *)
C2_LookupByIdentity ==
    \A r \in Workers :
        LET w == req[r]
            rows == store[CollectionOfEndpoint(w.q.ep)]
        IN  Answered(w) /\ w.q.ep \in LookupEndpoints /\ WellFormed(w.q)
                /\ w.ver = writes /\ w.resp.status # 500 =>
            IF \E x \in rows : x.id = w.q.id.v
            THEN /\ w.resp.status = 200
                 /\ Len(w.resp.rows) = 1
                 /\ w.resp.rows[1].id = w.q.id.v
                 /\ w.resp.rows[1] \in rows
            ELSE /\ w.resp.status = 404
                 /\ w.q.ep = "player" => w.resp.detail = "Player not found"
                 /\ w.q.ep = "league" => w.resp.detail = "League not found"

\* a league lookup answered 404 although the store holds other leagues
C2_Witness ==
    \E r \in Workers :
        /\ req[r].pc = "done" /\ req[r].q.ep = "league"
        /\ req[r].resp.status = 404 /\ req[r].resp.detail = "League not found"
        /\ store["leagues"] # {}

---------------------------------------------------------------------------
(* C3: a list endpoint given valid skip and limit returns                  *)
(* min(limit, max(0, total_matching - skip)) rows, total_matching being    *)
(* the number of stored rows that satisfy every filter given; a request    *)
(* that gives no skip asks the Query Layer for skip 0, and one that gives  *)
(* no limit for limit 100.                                                 *)
C3_PageLength ==
    \A r \in Workers :
        LET w == req[r] IN
        ListAnswered(w) /\ w.ver = writes /\ w.resp.status = 200 =>
            /\ Len(w.resp.rows) =
                  Min(GivenLimit(w.q),
                      Max(0, Cardinality(Matching(w.q)) - GivenSkip(w.q)))
            /\ Len(w.calls) = 1
            /\ w.q.skip = Absent => w.calls[1].skip = 0
            /\ w.q.limit = Absent => w.calls[1].limit = 100

\* no skip and no limit given, more than 100 rows match, 100 come back
C3_Witness ==
    \E r \in Workers :
        /\ req[r].pc = "done" /\ req[r].q.ep = "performances"
        /\ req[r].q.skip = Absent /\ req[r].q.limit = Absent
        /\ Cardinality(Matching(req[r].q)) > 100
        /\ Len(req[r].resp.rows) = 100

---------------------------------------------------------------------------
(* C4: the filters given to a list endpoint are combined with AND and an   *)
(* absent filter imposes nothing: the rows returned (for valid skip and    *)
(* limit) are exactly the rows at positions [skip, skip+limit) of the      *)
(* stored rows satisfying every given filter, in ascending identity.       *)
C4_ExactWindow ==
    \A r \in Workers :
        LET w == req[r]
            M == Matching(w.q)
            rows == w.resp.rows
            skip == GivenSkip(w.q)
            limit == GivenLimit(w.q)
        IN  ListAnswered(w) /\ w.ver = writes /\ w.resp.status = 200 =>
            /\ \A i \in 1..Len(rows) : rows[i] \in M /\ Rank(M, rows[i]) = skip + i - 1
            /\ \A x \in M : skip <= Rank(M, x) /\ Rank(M, x) < skip + limit => InRows(x, rows)

\* last_name = "Smith" alone: the Jones with the lower id is left out and the
\* Smith after him is the whole result
C4_Witness ==
    \E r \in Workers :
        /\ req[r].pc = "done" /\ req[r].q.ep = "players"
        /\ req[r].q.last_name = {"Smith"} /\ req[r].q.first_name = {}
        /\ req[r].q.minimum_last_changed_date = Absent
        /\ GivenSkip(req[r].q) = 0
        /\ Cardinality(store["players"]) = 2
        /\ Len(req[r].resp.rows) = 1
        /\ req[r].resp.rows[1].id = 2

---------------------------------------------------------------------------
(* C5: a client that reads skip=0,limit=N and then skip=N,limit=N of a     *)
(* list endpoint, with the same filters and nobody changing the store,     *)
(* gets two pages with no row in common, the second starting where the     *)
(* first ended, whose concatenation is the first 2N matching rows in       *)
(* ascending identity.                                                     *)
C5_ConsecutivePages ==
    \A r \in Workers :
        LET w == req[r]
            p == prev[r]
            N == p.q.limit.v
            M == Matching(w.q)
            both == p.resp.rows \o w.resp.rows
        IN  /\ p.q.ep \in ListEndpoints
            /\ Answered(w) /\ w.resp.status = 200
            /\ w.q = [p.q EXCEPT !.skip = IntVal(N)]
            /\ p.ver = writes
            =>
            /\ Len(both) = Min(2 * N, Cardinality(M))
            /\ \A i \in 1..Len(both) : both[i] \in M /\ Rank(M, both[i]) = i - 1
            /\ Len(p.resp.rows) = Min(N, Cardinality(M))
            /\ \A i \in 1..Len(p.resp.rows) : ~InRows(p.resp.rows[i], w.resp.rows)

\* N = 1 and at least two rows match: each page brings one row
C5_Witness ==
    \E r \in Workers :
        /\ req[r].pc = "done" /\ req[r].resp.status = 200
        /\ prev[r].q.ep = "leagues" /\ prev[r].q.limit = IntVal(1)
        /\ req[r].q.skip = IntVal(1)
        /\ Len(prev[r].resp.rows) = 1 /\ Len(req[r].resp.rows) = 1
        /\ prev[r].resp.rows[1].id < req[r].resp.rows[1].id

---------------------------------------------------------------------------
(* C6: minimum_last_changed_date is an inclusive lower bound on every list *)
(* endpoint.  Of the rows that satisfy the other filters, when the page is *)
(* wide enough to hold them all, a row changed on the given day or later   *)
(* is returned, a row changed earlier (the day before, say) is not, and    *)
(* without the parameter every one of them is returned.                    *)
C6_InclusiveDate ==
    \A r \in Workers :
        LET w == req[r]
            rows == store[CollectionOfEndpoint(w.q.ep)]
            d == w.q.minimum_last_changed_date
        IN  /\ ListAnswered(w) /\ w.ver = writes /\ w.resp.status = 200
            /\ GivenSkip(w.q) = 0
            /\ GivenLimit(w.q) >= Cardinality(rows)
            =>
            \A x \in rows : SatisfiesNames(w.q, x) =>
                /\ d = Absent => InRows(x, w.resp.rows)
                /\ d.t = "int" /\ x.last_changed_date = d.v => InRows(x, w.resp.rows)
                /\ d.t = "int" /\ x.last_changed_date > d.v => InRows(x, w.resp.rows)
                /\ d.t = "int" /\ x.last_changed_date = d.v - 1 => ~InRows(x, w.resp.rows)
                /\ d.t = "int" /\ x.last_changed_date < d.v => ~InRows(x, w.resp.rows)

\* the bound is Today: the performance changed Today is returned, the one
\* changed the day before is not
C6_Witness ==
    \E r \in Workers :
        /\ req[r].pc = "done" /\ req[r].q.ep = "performances"
        /\ req[r].q.minimum_last_changed_date = IntVal(Today)
        /\ req[r].q.skip = Absent /\ req[r].q.limit = Absent
        /\ \E x \in store["performances"] : \E y \in store["performances"] :
              /\ x.last_changed_date = Today /\ y.last_changed_date = Today - 1
              /\ req[r].resp.rows = <<x>>

---------------------------------------------------------------------------
(* C7: when the store does not change while /v0/counts/ is served, the     *)
(* response carries league_count, team_count and player_count equal to the *)
(* number of leagues, teams and players in the store, each non-negative    *)
(* and each bound to its own collection.                                   *)
C7_CountsMatchStore ==
    \A r \in Workers :
        LET w == req[r] IN
        w.q.ep = "counts" /\ Answered(w) /\ w.resp.status = 200 /\ w.ver = writes =>
            /\ w.resp.counts.league_count = Cardinality(store["leagues"])
            /\ w.resp.counts.team_count = Cardinality(store["teams"])
            /\ w.resp.counts.player_count = Cardinality(store["players"])
            /\ w.resp.counts.league_count >= 0
            /\ w.resp.counts.team_count >= 0
            /\ w.resp.counts.player_count >= 0

\* counts served from a store whose three collections differ in size
C7_Witness ==
    \E r \in Workers :
        /\ req[r].pc = "done" /\ req[r].q.ep = "counts"
        /\ req[r].resp.status = 200 /\ req[r].ver = writes
        /\ Cardinality(store["leagues"]) # Cardinality(store["teams"])
        /\ Cardinality(store["teams"]) # Cardinality(store["players"])
        /\ Cardinality(store["leagues"]) # Cardinality(store["players"])

---------------------------------------------------------------------------
(* C8 as claimed: every request that reaches a store-backed handler makes  *)
(* exactly one Query Layer call, and none fails after a read of its own    *)
(* has completed.                                                          *)
C8_OneCallPerRequest ==
    \A r \in Workers :
        LET w == req[r] IN
        Answered(w) /\ w.q.ep \in StoreEndpoints /\ WellFormed(w.q) =>
            /\ Len(w.calls) = 1
            /\ w.resp.status = 500 => w.reads = 0

(* C8 as amended: every list and single-entity endpoint makes exactly one  *)
(* Query Layer call per request and fails, if it does, with no read        *)
(* completed; get_count makes up to three (league count, team count,       *)
(* player count, in that order), all three when it succeeds, and can fail  *)
(* after one or two of them have completed.                                *)
C8_OneCallExceptCounts ==
    \A r \in Workers :
        LET w == req[r] IN
        Answered(w) /\ w.q.ep \in StoreEndpoints /\ WellFormed(w.q) =>
            IF w.q.ep = "counts"
            THEN /\ Len(w.calls) \in 1..3
                 /\ \A i \in 1..Len(w.calls) :
                       w.calls[i].fn =
                          <<"get_league_count", "get_team_count", "get_player_count">>[i]
                 /\ w.resp.status = 200 => Len(w.calls) = 3 /\ w.reads = 3
                 /\ w.resp.status = 500 => w.reads = Len(w.calls) - 1
            ELSE /\ Len(w.calls) = 1
                 /\ w.resp.status = 500 => w.reads = 0
                 /\ w.resp.status # 500 => w.reads = 1

\* get_count failed by the store on its third read, two reads behind it
C8_Witness ==
    \E r \in Workers :
        /\ req[r].pc = "done" /\ req[r].q.ep = "counts"
        /\ req[r].resp.status = 500
        /\ Len(req[r].calls) = 3 /\ req[r].reads = 2

---------------------------------------------------------------------------
(* C9: get_count reads the league, team and player counts one after the    *)
(* other; each count is the size of its collection in the store state it   *)
(* was read from, the three states in the order they occurred, and the     *)
(* response reports those three values.  (The witness is a response whose  *)
(* triple is the sizes of no state the store was ever in.)                 *)
C9_CountsReadSeparately ==
    \A r \in Workers :
        LET w == req[r] IN
        w.q.ep = "counts" =>
            /\ Len(w.readAt) = Len(w.vals)
            /\ \A i \in 1..Len(w.vals) :
                  /\ w.readAt[i] \in 1..Len(hist)
                  /\ w.vals[i] = hist[w.readAt[i]][i]
                  /\ i > 1 => w.readAt[i - 1] <= w.readAt[i]
            /\ Answered(w) /\ w.resp.status = 200 =>
                  /\ Len(w.vals) = 3
                  /\ w.resp.counts.league_count = hist[w.readAt[1]][1]
                  /\ w.resp.counts.team_count = hist[w.readAt[2]][2]
                  /\ w.resp.counts.player_count = hist[w.readAt[3]][3]

\* the store changed between the reads and the response matches none of its states
C9_Witness ==
    \E r \in Workers :
        /\ req[r].pc = "done" /\ req[r].q.ep = "counts" /\ req[r].resp.status = 200
        /\ \A k \in 1..Len(hist) :
              hist[k] # <<req[r].resp.counts.league_count,
                          req[r].resp.counts.team_count,
                          req[r].resp.counts.player_count>>

---------------------------------------------------------------------------
(* C10: every call a list endpoint makes to the Query Layer has skip >= 0  *)
(* and limit >= 0 (a negative one is refused before the handler runs).     *)
C10_NonNegativeAtQueryLayer ==
    \A r \in Workers :
        \A i \in 1..Len(req[r].calls) :
            req[r].calls[i].fn \in {"get_players", "get_performances",
                                    "get_leagues", "get_teams"} =>
                req[r].calls[i].skip >= 0 /\ req[r].calls[i].limit >= 0

====
